---- MODULE Spec2Model ----
(***************************************************************************)
(* A model of the plan-schedule GPX tools: the segment sequencer of pg.py, *)
(* the track model of lib.py (splitting, elevation queries, elevation      *)
(* profile, nearest point) and the output handling of the writing scripts. *)
(* Each component has its own specification over the shared variables; the *)
(* variables of the other components keep their idle values.               *)
(***************************************************************************)
EXTENDS Integers, Sequences, FiniteSets, TLC

VARIABLES
    \* pg.segmentsort (a generator, advanced by its consumer)
    segments,      \* dict n -> segment, each segment [start, end]
    closest,       \* dict n -> index of the nearest successor; popped while running
    segment,       \* the local variable `segment`, as its index segment.n
    seen,          \* the set `seen`
    emitted,       \* the sequence of yielded segments (indices)
    sortpc         \* "init", "loop", "done", "KeyError"

sortVars == <<segments, closest, segment, seen, emitted, sortpc>>

VARIABLES
    \* lib.Track / lib.Segment splitting
    track,         \* Track.segments: a list of segments, each the list Segment.points
    splitOp        \* the last split call: its arguments, the list before it, its outcome

splitVars == <<track, splitOp>>

VARIABLES
    \* lib.Segment elevation queries
    elePoints,     \* Segment.points, each point as its elevation (None or a number)
    elevOp         \* the last elevation query: its arguments and its result

elevVars == <<elePoints, elevOp>>

VARIABLES
    \* lib min_elevation / max_elevation at segment, track and GPX scope
    gpx,           \* GPX.tracks: tracks of segments of points, each point its elevation
    rangeOp        \* the last min/max query: its scope and its result

rangeVars == <<gpx, rangeOp>>

VARIABLES
    \* lib.Point.find_nearest_track_point
    nearTracks,    \* the tracks searched: tracks of segments of points, each its latitude
    nearOp         \* the last call: the query point and the result

nearVars == <<nearTracks, nearOp>>

VARIABLES
    \* the writing scripts hijack.py, join.py, split.py
    fs,            \* the file system: path -> content, or Absent
    lastRun        \* the last script run: its output paths, fs before it, its outcome

fileVars == <<fs, lastRun>>

VARIABLES
    \* join.join and the module-level template it fills
    trkChildren,   \* the children of the <trk> element of gpx_template_root
    joinCalls      \* the segments passed to each call of join so far, in call order

joinVars == <<trkChildren, joinCalls>>

VARIABLES
    \* lib: GPX.to_xml, serialization, GPX.from_xml
    codecGpx,      \* a GPX aggregate: [tracks, waypoints]
    codecOp        \* the last round trip: its outcome and the aggregate parsed back

codecVars == <<codecGpx, codecOp>>

vars == <<sortVars, splitVars, elevVars, rangeVars, nearVars, fileVars, joinVars, codecVars>>

\* What each component leaves alone.
notSort == <<splitVars, elevVars, rangeVars, nearVars, fileVars, joinVars, codecVars>>
notSplit == <<sortVars, elevVars, rangeVars, nearVars, fileVars, joinVars, codecVars>>
notElev == <<sortVars, splitVars, rangeVars, nearVars, fileVars, joinVars, codecVars>>
notRange == <<sortVars, splitVars, elevVars, nearVars, fileVars, joinVars, codecVars>>
notNear == <<sortVars, splitVars, elevVars, rangeVars, fileVars, joinVars, codecVars>>
notFile == <<sortVars, splitVars, elevVars, rangeVars, nearVars, joinVars, codecVars>>
notJoin == <<sortVars, splitVars, elevVars, rangeVars, nearVars, fileVars, codecVars>>
notCodec == <<sortVars, splitVars, elevVars, rangeVars, nearVars, fileVars, joinVars>>

----------------------------------------------------------------------------
(* Bounds *)

\* the most segments handed to segmentsort
MaxSegs == 3
\* coordinates are whole degrees of latitude 0..MaxCoord on one meridian
MaxCoord == 2
\* the most points of the track that is split, over all its segments
MaxPts == 3
\* the most segments of the track that is split, before the split
MaxTrackSegs == 2
\* the most points of the segment whose elevations are analysed
MaxElePts == 4
\* elevations are whole metres 0..MaxEle
MaxEle == 3
\* fuzz thresholds are 0..MaxFuzz
MaxFuzz == 3
\* the most points of a segment whose whole elevation profile is analysed
MaxProfilePts == 6
\* the most calls of join.join in one process, and the most segments of a call
MaxJoinCalls == 3
MaxJoinSegs == 2
\* the most waypoints of the GPX aggregate that is written and read back
MaxWpts == 1
\* a GPX aggregate has at most MaxGpxPts points, MaxGpxSegs segments and
\* MaxGpxTracks tracks in all
MaxGpxPts == 2
MaxGpxSegs == 2
MaxGpxTracks == 2

----------------------------------------------------------------------------
(* Helpers *)

Abs(x) == IF x < 0 THEN -x ELSE x

\* Python's min(iterable, key=...) over indices iterated in increasing order,
\* the keys given as a function of the index: the first index whose key is minimal.
FirstMinBy(key) ==
    CHOOSE n \in DOMAIN key :
        \A m \in DOMAIN key : key[n] < key[m] \/ (key[n] = key[m] /\ n <= m)

\* Python's max(iterable, key=...): the first index whose key is maximal.
FirstMaxBy(key) ==
    CHOOSE n \in DOMAIN key :
        \A m \in DOMAIN key : key[n] > key[m] \/ (key[n] = key[m] /\ n <= m)

\* The least element of a non-empty set of integers.
SetMin(S) == CHOOSE x \in S : \A y \in S : x <= y

----------------------------------------------------------------------------
(* Idle values of each component's variables *)

SortIdle ==
    /\ segments = <<>>
    /\ closest = <<>>
    /\ segment = -1
    /\ seen = {}
    /\ emitted = <<>>
    /\ sortpc = "idle"

SplitIdle ==
    /\ track = <<>>
    /\ splitOp = [kind |-> "none"]

ElevIdle ==
    /\ elePoints = <<>>
    /\ elevOp = [kind |-> "none"]

RangeIdle ==
    /\ gpx = <<>>
    /\ rangeOp = [kind |-> "none"]

NearIdle ==
    /\ nearTracks = <<>>
    /\ nearOp = [kind |-> "none"]

FileIdle ==
    /\ fs = <<>>
    /\ lastRun = [script |-> "none"]

JoinIdle ==
    /\ trkChildren = <<>>
    /\ joinCalls = <<>>

CodecIdle ==
    /\ codecGpx = <<>>
    /\ codecOp = [kind |-> "none"]

NotSortIdle == SplitIdle /\ ElevIdle /\ RangeIdle /\ NearIdle /\ FileIdle /\ JoinIdle /\ CodecIdle
NotSplitIdle == SortIdle /\ ElevIdle /\ RangeIdle /\ NearIdle /\ FileIdle /\ JoinIdle /\ CodecIdle
NotElevIdle == SortIdle /\ SplitIdle /\ RangeIdle /\ NearIdle /\ FileIdle /\ JoinIdle /\ CodecIdle
NotRangeIdle == SortIdle /\ SplitIdle /\ ElevIdle /\ NearIdle /\ FileIdle /\ JoinIdle /\ CodecIdle
NotNearIdle == SortIdle /\ SplitIdle /\ ElevIdle /\ RangeIdle /\ FileIdle /\ JoinIdle /\ CodecIdle
NotFileIdle == SortIdle /\ SplitIdle /\ ElevIdle /\ RangeIdle /\ NearIdle /\ JoinIdle /\ CodecIdle
NotJoinIdle == SortIdle /\ SplitIdle /\ ElevIdle /\ RangeIdle /\ NearIdle /\ FileIdle /\ CodecIdle
NotCodecIdle == SortIdle /\ SplitIdle /\ ElevIdle /\ RangeIdle /\ NearIdle /\ FileIdle /\ JoinIdle

----------------------------------------------------------------------------
(* pg.py: the segment sequencer *)

Coords == 0..MaxCoord

\* pg.haversine for two points of one meridian: the great-circle distance is
\* R * radians(|lat2 - lat1|); the unit here is R * radians(1).
haversine(coord1, coord2) == Abs(coord2 - coord1)

\* pg.Segment: only start (points[0]) and end (points[-1]) are read by the sort.
PgSegment == [start : Coords, end : Coords]

\* closest = {n: min(segments, key = haversine(segment.end, other.start))}
ComputeClosest(segs) ==
    [n \in DOMAIN segs |->
        FirstMinBy([other \in DOMAIN segs |->
                        haversine(segs[n].end, segs[other].start)])]

\* incoming_distance = {n: min(haversine(segment.start, other.end) for other in segments)}
IncomingDistance(segs) ==
    [n \in DOMAIN segs |->
        SetMin({haversine(segs[n].start, segs[o].end) : o \in DOMAIN segs})]

\* first_n = max(incoming_distance, key=incoming_distance.__getitem__)
FirstN(segs) == FirstMaxBy(IncomingDistance(segs))

\* The inputs: every non-empty dict(enumerate(segments)) of at most MaxSegs segments.
SortInit ==
    /\ \E k \in 1..MaxSegs : segments \in [0..(k - 1) -> PgSegment]
    /\ closest = <<>>
    /\ segment = -1
    /\ seen = {}
    /\ emitted = <<>>
    /\ sortpc = "init"
    /\ NotSortIdle

\* Lines 35-51: up to the first test of the while loop.
SortStart ==
    /\ sortpc = "init"
    /\ closest' = ComputeClosest(segments)
    /\ segment' = FirstN(segments)
    /\ seen' = {}
    /\ sortpc' = "loop"
    /\ UNCHANGED <<segments, emitted>>
    /\ UNCHANGED notSort

\* Lines 52-55, one iteration in which closest.pop(segment.n) finds its key.
SortYield ==
    /\ sortpc = "loop"
    /\ DOMAIN closest # {}
    /\ segment \in DOMAIN closest
    /\ emitted' = Append(emitted, segment)
    /\ seen' = seen \cup {segment}
    /\ segment' = closest[segment]
    /\ closest' = [n \in DOMAIN closest \ {segment} |-> closest[n]]
    /\ UNCHANGED <<segments, sortpc>>
    /\ UNCHANGED notSort

\* Lines 52-55, one iteration in which closest.pop(segment.n) raises KeyError:
\* the segment was yielded and added to seen before the pop.
SortKeyError ==
    /\ sortpc = "loop"
    /\ DOMAIN closest # {}
    /\ segment \notin DOMAIN closest
    /\ emitted' = Append(emitted, segment)
    /\ seen' = seen \cup {segment}
    /\ sortpc' = "KeyError"
    /\ UNCHANGED <<segments, closest, segment>>
    /\ UNCHANGED notSort

\* Lines 52, 56-57: the loop ends, the trailing segment is yielded if unseen.
SortTail ==
    /\ sortpc = "loop"
    /\ DOMAIN closest = {}
    /\ emitted' = IF segment \notin seen THEN Append(emitted, segment) ELSE emitted
    /\ sortpc' = "done"
    /\ UNCHANGED <<segments, closest, segment, seen>>
    /\ UNCHANGED notSort

SortNext == SortStart \/ SortYield \/ SortKeyError \/ SortTail

SpecSort == SortInit /\ [][SortNext]_vars

\* How often segment n was yielded.
TimesEmitted(n) == Cardinality({i \in DOMAIN emitted : emitted[i] = n})

\* C1: once segmentsort has stopped, the emitted sequence has exactly k entries
\* and holds every input segment exactly once.
C1_EmitsPermutation ==
    sortpc \in {"done", "KeyError"} =>
        /\ Len(emitted) = Cardinality(DOMAIN segments)
        /\ \A n \in DOMAIN segments : TimesEmitted(n) = 1

\* C12: segmentsort ends without raising an error, whatever the precomputed
\* successors are.
C12_TerminatesNormally == sortpc # "KeyError"

\* The least distance from the end of another segment to the start of segment s.
OtherIncoming(segs, s) ==
    SetMin({haversine(segs[o].end, segs[s].start) : o \in DOMAIN segs \ {s}})

\* C13: with two segments or more, the first segment emitted maximizes the
\* least distance from another segment's end to its start; a single segment
\* is emitted first.
C13_FirstMaximizesIncoming ==
    Len(emitted) >= 1 =>
        IF Cardinality(DOMAIN segments) = 1 THEN emitted[1] = 0
        ELSE \A n \in DOMAIN segments :
                OtherIncoming(segments, emitted[1]) >= OtherIncoming(segments, n)

----------------------------------------------------------------------------
(* lib.py: Segment.split_segment_at_point and Track.split_track_at_point *)

\* Point has no __eq__: `in` and list.index compare object identity. A point is
\* its identity; a list may hold the same point more than once.
Points == {"p", "q", "r"}

\* The lists of at most n elements of S.
SeqsUpTo(S, n) == UNION {[1..k -> S] : k \in 0..n}

\* list.index(x): the first position holding x (used where the list holds x).
IndexOf(list, x) == SetMin({i \in DOMAIN list : list[i] = x})

\* x in list
Contains(list, x) == \E i \in DOMAIN list : list[i] = x

\* list[lo..hi], positions counted from 1
Slice(list, lo, hi) == [i \in 1..(hi - lo + 1) |-> list[lo + i - 1]]

\* list.insert(n, x) with n the 1-based position the element takes
ListInsert(list, n, x) ==
    Slice(list, 1, n - 1) \o <<x>> \o Slice(list, n, Len(list))

\* list.pop(n) with n a 1-based position: the list left behind
ListPop(list, n) ==
    Slice(list, 1, n - 1) \o Slice(list, n + 1, Len(list))

\* A slip in the second slice: points[index + 1:], B no longer starts at the point.
SplitSegmentDropsPoint(points, point) ==
    LET index == IndexOf(points, point)
    IN  [a |-> Slice(points, 1, index), b |-> Slice(points, index + 1, Len(points))]

\* Segment.split_segment_at_point, lines 309-312, for a point of the segment:
\* index = points.index(point); points[:index + 1], points[index:]
SplitSegmentAtPoint(points, point) ==
    LET index == IndexOf(points, point)
    IN  [a |-> Slice(points, 1, index), b |-> Slice(points, index, Len(points))]

\* Track.split_track_at_point, lines 186-192, for a point found in segment n:
\* insert(n, segment_a); insert(n, segment_b); pop(n)
SplitTrackAtSegment(segs, n, point) ==
    LET halves == SplitSegmentAtPoint(segs[n], point)
    IN  ListPop(ListInsert(ListInsert(segs, n, halves.a), n, halves.b), n)

\* The first segment of the track holding the point (the enumerate loop's n).
OwningSegment(segs, point) ==
    SetMin({n \in DOMAIN segs : Contains(segs[n], point)})

InAnySegment(segs, point) == \E n \in DOMAIN segs : Contains(segs[n], point)

\* lens[1] + ... + lens[i]
RECURSIVE SumTo(_, _)
SumTo(lens, i) == IF i = 0 THEN 0 ELSE lens[i] + SumTo(lens, i - 1)

\* The track whose segments have the lengths lens and whose points, in order,
\* are those of flat.
Cut(flat, lens) ==
    [i \in 1..Len(lens) |-> Slice(flat, SumTo(lens, i - 1) + 1, SumTo(lens, i))]

\* Every track of at most MaxTrackSegs segments (empty ones included) and at
\* most MaxPts points.
Tracks ==
    {Cut(flat, lens) : <<flat, lens>> \in
        {fl \in SeqsUpTo(Points, MaxPts) \X SeqsUpTo(0..MaxPts, MaxTrackSegs) :
            SumTo(fl[2], Len(fl[2])) = Len(fl[1])}}

SplitInit ==
    /\ track \in Tracks
    /\ splitOp = [kind |-> "none"]
    /\ NotSplitIdle

\* segment.split_segment_at_point(point) on segment n of the track, point present.
SegmentSplit ==
    \E n \in DOMAIN track, point \in Points :
        /\ Len(track) <= MaxTrackSegs
        /\ Contains(track[n], point)
        /\ splitOp' = [kind |-> "segment", point |-> point, n |-> n, before |-> track,
                       outcome |-> "returned",
                       result |-> SplitSegmentAtPoint(track[n], point)]
        /\ UNCHANGED <<track, notSplit>>

\* segment.split_segment_at_point(point), point absent: list.index raises ValueError.
SegmentSplitAbsent ==
    \E n \in DOMAIN track, point \in Points :
        /\ Len(track) <= MaxTrackSegs
        /\ ~Contains(track[n], point)
        /\ splitOp' = [kind |-> "segment", point |-> point, n |-> n, before |-> track,
                       outcome |-> "ValueError"]
        /\ UNCHANGED <<track, notSplit>>

\* track.split_track_at_point(point), the point in some segment.
TrackSplit ==
    \E point \in Points :
        /\ Len(track) <= MaxTrackSegs
        /\ InAnySegment(track, point)
        /\ LET n == OwningSegment(track, point)
           IN  /\ track' = SplitTrackAtSegment(track, n, point)
               /\ splitOp' = [kind |-> "track", point |-> point, n |-> n,
                              before |-> track, outcome |-> "returned"]
        /\ UNCHANGED notSplit

\* track.split_track_at_point(point), the point in no segment: the loop ends and
\* the method returns None.
TrackSplitAbsent ==
    \E point \in Points :
        /\ Len(track) <= MaxTrackSegs
        /\ ~InAnySegment(track, point)
        /\ splitOp' = [kind |-> "track", point |-> point, n |-> 0,
                       before |-> track, outcome |-> "returned"]
        /\ UNCHANGED <<track, notSplit>>

SplitNext == SegmentSplit \/ SegmentSplitAbsent \/ TrackSplit \/ TrackSplitAbsent

SpecSplit == SplitInit /\ [][SplitNext]_vars

\* C2: after split_track_at_point with the point in segment n, the list is the
\* old list with segment n replaced by the halves A then B.
C2_TrackSplitReplaces ==
    (splitOp.kind = "track" /\ splitOp.n > 0) =>
        LET old == splitOp.before
            n == splitOp.n
            halves == SplitSegmentAtPoint(old[n], splitOp.point)
        IN  track = Slice(old, 1, n - 1) \o <<halves.a, halves.b>>
                        \o Slice(old, n + 1, Len(old))

\* C3: a segment split at one of its points gives A ending in the point and B
\* starting with it, and A followed by B without its first point is the segment.
C3_SplitReconstructs ==
    (splitOp.kind = "segment" /\ splitOp.outcome = "returned") =>
        LET points == splitOp.before[splitOp.n]
            a == splitOp.result.a
            b == splitOp.result.b
        IN  /\ Len(a) >= 1 /\ Len(b) >= 1
            /\ a[Len(a)] = splitOp.point
            /\ b[1] = splitOp.point
            /\ a \o Tail(b) = points

\* C3 witness: a split strictly inside a segment, both halves with two points or more.
C3_Witness ==
    /\ splitOp.kind = "segment" /\ splitOp.outcome = "returned"
    /\ Len(splitOp.result.a) >= 2 /\ Len(splitOp.result.b) >= 2

\* C4: a split given a point absent from its target does not return normally
\* and leaves the target unchanged.
C4_AbsentPointFails ==
    /\ (splitOp.kind = "segment" /\ ~Contains(splitOp.before[splitOp.n], splitOp.point)) =>
            (splitOp.outcome # "returned" /\ track = splitOp.before)
    /\ (splitOp.kind = "track" /\ ~InAnySegment(splitOp.before, splitOp.point)) =>
            (splitOp.outcome # "returned" /\ track = splitOp.before)

----------------------------------------------------------------------------
(* lib.py: elevation gain, loss and changes of a segment *)

\* Point.elevation: Optional[float]. None is the empty tuple, a number e is <<e>>.
None == <<>>
Some(e) == <<e>>
Elevations == {None} \cup {Some(e) : e \in 0..MaxEle}

\* elevation(point), lines 575-578, for a point that has an elevation
elevation(point) == point[1]

\* Whether elevation(point) passes its assertion for both points of every pair
\* of zip(points, points[1:]).
PairsHaveElevation(points) ==
    Len(points) >= 2 => \A i \in DOMAIN points : points[i] # None

Max(a, b) == IF a >= b THEN a ELSE b

\* sum(list)
RECURSIVE SeqSum(_)
SeqSum(list) == IF list = <<>> THEN 0 ELSE Head(list) + SeqSum(Tail(list))

\* [elevation(b) - elevation(a) for a, b in zip(points, points[1:])], lines 382-385
Deltas(points) ==
    [i \in 1..(Len(points) - 1) |-> elevation(points[i + 1]) - elevation(points[i])]

\* A copy-and-paste slip in elevation_loss: the sign of the delta not turned.
ElevationLossAsGain(points) ==
    SeqSum([i \in 1..(Len(points) - 1) |->
                Max(0, elevation(points[i + 1]) - elevation(points[i]))])

\* Segment.elevation_gain, lines 355-358
elevation_gain(points) ==
    SeqSum([i \in 1..(Len(points) - 1) |->
                Max(0, elevation(points[i + 1]) - elevation(points[i]))])

\* Segment.elevation_loss, lines 367-370
elevation_loss(points) ==
    SeqSum([i \in 1..(Len(points) - 1) |->
                Max(0, -elevation(points[i + 1]) + elevation(points[i]))])

\* The loop of _simplify_elevation_changes, lines 405-409, from change i on.
RECURSIVE SimplifyLoop(_, _, _)
SimplifyLoop(changes, i, simplified) ==
    IF i > Len(changes) THEN simplified
    ELSE LET last == simplified[Len(simplified)]
         IN  IF changes[i] * last >= 0
             THEN SimplifyLoop(changes, i + 1,
                      [simplified EXCEPT ![Len(simplified)] = last + changes[i]])
             ELSE SimplifyLoop(changes, i + 1, Append(simplified, changes[i]))

\* Segment._simplify_elevation_changes, lines 401-411
simplify_elevation_changes(changes) ==
    IF changes = <<>> THEN <<>> ELSE SimplifyLoop(changes, 2, <<changes[1]>>)

\* The loop of _defuzz_elevation_changes, lines 428-434, from change i on.
RECURSIVE DefuzzLoop(_, _, _, _)
DefuzzLoop(changes, fuzz, i, simplified) ==
    IF i > Len(changes) THEN simplified
    ELSE LET last == simplified[Len(simplified)]
         IN  IF Abs(changes[i]) < fuzz \/ changes[i] * last >= 0
             THEN DefuzzLoop(changes, fuzz, i + 1,
                      [simplified EXCEPT ![Len(simplified)] = last + changes[i]])
             ELSE DefuzzLoop(changes, fuzz, i + 1, Append(simplified, changes[i]))

\* A defuzz that drops the changes smaller than fuzz instead of folding them in.
RECURSIVE DefuzzDropLoop(_, _, _, _)
DefuzzDropLoop(changes, fuzz, i, simplified) ==
    IF i > Len(changes) THEN simplified
    ELSE LET last == simplified[Len(simplified)]
         IN  IF Abs(changes[i]) < fuzz
             THEN DefuzzDropLoop(changes, fuzz, i + 1, simplified)
             ELSE IF changes[i] * last >= 0
             THEN DefuzzDropLoop(changes, fuzz, i + 1,
                      [simplified EXCEPT ![Len(simplified)] = last + changes[i]])
             ELSE DefuzzDropLoop(changes, fuzz, i + 1, Append(simplified, changes[i]))

DefuzzDropsSmall(changes, fuzz) ==
    LET simplified == DefuzzDropLoop(changes, fuzz, 1, <<0>>)
    IN  IF simplified[1] = 0 THEN Tail(simplified) ELSE simplified

\* Segment._defuzz_elevation_changes, lines 427-437
defuzz_elevation_changes(changes, fuzz) ==
    LET simplified == DefuzzLoop(changes, fuzz, 1, <<0>>)
    IN  IF simplified[1] = 0 THEN Tail(simplified) ELSE simplified

\* Segment.elevation_changes, lines 382-388
elevation_changes(points, fuzz) ==
    defuzz_elevation_changes(simplify_elevation_changes(Deltas(points)), fuzz)

ElevInit ==
    /\ elePoints \in SeqsUpTo(Elevations, MaxElePts)
    /\ elevOp = [kind |-> "none"]
    /\ NotElevIdle

\* segment.elevation_changes(fuzz), every point of every pair with an elevation
ElevationChanges ==
    \E fuzz \in 0..MaxFuzz :
        /\ PairsHaveElevation(elePoints)
        /\ elevOp' = [kind |-> "changes", fuzz |-> fuzz, outcome |-> "returned",
                      changes |-> elevation_changes(elePoints, fuzz)]
        /\ UNCHANGED <<elePoints, notElev>>

\* segment.elevation_gain() and segment.elevation_loss()
ElevationGainLoss ==
    /\ PairsHaveElevation(elePoints)
    /\ elevOp' = [kind |-> "gainloss", outcome |-> "returned",
                  gain |-> elevation_gain(elePoints),
                  loss |-> elevation_loss(elePoints)]
    /\ UNCHANGED <<elePoints, notElev>>

\* Any of the three queries over a pair with a point that has no elevation:
\* elevation(point) fails its assertion.
ElevationMissing ==
    \E kind \in {"changes", "gainloss"} :
        /\ ~PairsHaveElevation(elePoints)
        /\ elevOp' = [kind |-> kind, outcome |-> "AssertionError"]
        /\ UNCHANGED <<elePoints, notElev>>

ElevNext == ElevationChanges \/ ElevationGainLoss \/ ElevationMissing

SpecElev == ElevInit /\ [][ElevNext]_vars

\* A segment with at least one point, every point with an elevation.
FullyDefined(points) == Len(points) >= 1 /\ \A i \in DOMAIN points : points[i] # None

\* last.elevation - first.elevation
NetChange(points) == elevation(points[Len(points)]) - elevation(points[1])

\* C5: every change elevation_changes emits has magnitude at least fuzz.
C5_ChangesAtLeastFuzz ==
    (elevOp.kind = "changes" /\ elevOp.outcome = "returned") =>
        \A i \in DOMAIN elevOp.changes : Abs(elevOp.changes[i]) >= elevOp.fuzz

\* C6: for a segment with a point or more, all elevations defined, the emitted
\* changes sum to last.elevation - first.elevation, for every fuzz >= 0.
C6_ChangesSumToNet ==
    (elevOp.kind = "changes" /\ elevOp.outcome = "returned" /\ FullyDefined(elePoints)) =>
        SeqSum(elevOp.changes) = NetChange(elePoints)

\* C6 witness: a positive fuzz folded a small swing away and two changes or
\* more are still emitted.
C6_Witness ==
    /\ elevOp.kind = "changes" /\ elevOp.outcome = "returned" /\ FullyDefined(elePoints)
    /\ elevOp.fuzz > 0
    /\ Len(elevOp.changes) >= 2
    /\ Len(elevOp.changes) < Len(simplify_elevation_changes(Deltas(elePoints)))

\* C7: for a segment with a point or more, all elevations defined,
\* gain - loss = last.elevation - first.elevation, gain and loss not negative.
C7_GainMinusLoss ==
    (elevOp.kind = "gainloss" /\ elevOp.outcome = "returned" /\ FullyDefined(elePoints)) =>
        /\ elevOp.gain - elevOp.loss = NetChange(elePoints)
        /\ elevOp.gain >= 0
        /\ elevOp.loss >= 0

\* C7 witness: a segment that climbs and descends.
C7_Witness ==
    /\ elevOp.kind = "gainloss" /\ elevOp.outcome = "returned" /\ FullyDefined(elePoints)
    /\ elevOp.gain > 0
    /\ elevOp.loss > 0
    /\ NetChange(elePoints) # 0

\* The segments whose points all have an elevation, of up to MaxProfilePts
\* points: long enough for a swing to be folded away in the middle of a profile.
ProfileInit ==
    /\ elePoints \in SeqsUpTo({Some(e) : e \in 0..MaxEle}, MaxProfilePts)
    /\ elevOp = [kind |-> "none"]
    /\ NotElevIdle

SpecProfile == ProfileInit /\ [][ElevationChanges \/ ElevationGainLoss]_vars

\* C14: any two consecutive entries of the list elevation_changes returns have
\* strictly opposite signs.
C14_ChangesAlternate ==
    (elevOp.kind = "changes" /\ elevOp.outcome = "returned") =>
        \A i \in 1..(Len(elevOp.changes) - 1) :
            elevOp.changes[i] * elevOp.changes[i + 1] < 0

----------------------------------------------------------------------------
(* lib.py: min_elevation and max_elevation of Segment, Track and GPX *)

\* Every list of at most nTracks tracks holding at most nSegs segments and
\* nPts points in all, the points drawn from S; empty segments and empty tracks
\* included.
Aggregates(S, nPts, nSegs, nTracks) ==
    {Cut(Cut(c[1], c[2]), c[3]) : c \in
        {d \in SeqsUpTo(S, nPts) \X SeqsUpTo(0..nPts, nSegs) \X SeqsUpTo(0..nSegs, nTracks) :
            /\ SumTo(d[2], Len(d[2])) = Len(d[1])
            /\ SumTo(d[3], Len(d[3])) = Len(d[2])}}

SetMax(S) == CHOOSE x \in S : \A y \in S : x >= y

\* The result of a query that raised: Python's min() and max() raise ValueError
\* on an empty sequence. A result v is <<v>>.
Raised == <<>>

\* min(values) / max(values) over a list of results: an item that raised
\* propagates, an empty list raises.
MinOf(results) ==
    IF results = <<>> \/ \E i \in DOMAIN results : results[i] = Raised THEN Raised
    ELSE <<SetMin({results[i][1] : i \in DOMAIN results})>>

MaxOf(results) ==
    IF results = <<>> \/ \E i \in DOMAIN results : results[i] = Raised THEN Raised
    ELSE <<SetMax({results[i][1] : i \in DOMAIN results})>>

\* [point.elevation for point in self.points if point.elevation is not None]
DefinedElevations(points) ==
    LET keep == {i \in DOMAIN points : points[i] # None}
    IN  {elevation(points[i]) : i \in keep}

\* Segment.min_elevation, lines 333-335
segment_min_elevation(points) ==
    IF DefinedElevations(points) = {} THEN Raised
    ELSE <<SetMin(DefinedElevations(points))>>

\* Segment.max_elevation, lines 344-346
segment_max_elevation(points) ==
    IF DefinedElevations(points) = {} THEN Raised
    ELSE <<SetMax(DefinedElevations(points))>>

\* Track.min_elevation, line 210
track_min_elevation(segs) ==
    MinOf([i \in DOMAIN segs |-> segment_min_elevation(segs[i])])

\* Track.max_elevation, line 219
track_max_elevation(segs) ==
    MaxOf([i \in DOMAIN segs |-> segment_max_elevation(segs[i])])

\* GPX.min_elevation, line 92
gpx_min_elevation(tracks) ==
    MinOf([i \in DOMAIN tracks |-> track_min_elevation(tracks[i])])

\* GPX.max_elevation, line 101
gpx_max_elevation(tracks) ==
    MaxOf([i \in DOMAIN tracks |-> track_max_elevation(tracks[i])])

RangeInit ==
    /\ gpx \in Aggregates(Elevations, MaxGpxPts, MaxGpxSegs, MaxGpxTracks)
    /\ rangeOp = [kind |-> "none"]
    /\ NotRangeIdle

\* gpx.tracks[t].segments[s].min_elevation() and .max_elevation()
SegmentRange ==
    \E t \in DOMAIN gpx : \E sg \in DOMAIN gpx[t] :
        /\ rangeOp' = [kind |-> "segment", t |-> t, s |-> sg,
                       min |-> segment_min_elevation(gpx[t][sg]),
                       max |-> segment_max_elevation(gpx[t][sg])]
        /\ UNCHANGED <<gpx, notRange>>

\* gpx.tracks[t].min_elevation() and .max_elevation()
TrackRange ==
    \E t \in DOMAIN gpx :
        /\ rangeOp' = [kind |-> "track", t |-> t, s |-> 0,
                       min |-> track_min_elevation(gpx[t]),
                       max |-> track_max_elevation(gpx[t])]
        /\ UNCHANGED <<gpx, notRange>>

\* gpx.min_elevation() and gpx.max_elevation()
GpxRange ==
    /\ rangeOp' = [kind |-> "gpx", t |-> 0, s |-> 0,
                   min |-> gpx_min_elevation(gpx),
                   max |-> gpx_max_elevation(gpx)]
    /\ UNCHANGED <<gpx, notRange>>

RangeNext == SegmentRange \/ TrackRange \/ GpxRange

SpecRange == RangeInit /\ [][RangeNext]_vars

\* The defined elevations of all points in the scope of the last query.
ScopeElevations ==
    LET ofTrack(t) == UNION {DefinedElevations(gpx[t][sg]) : sg \in DOMAIN gpx[t]}
    IN  CASE rangeOp.kind = "segment" -> DefinedElevations(gpx[rangeOp.t][rangeOp.s])
          [] rangeOp.kind = "track" -> ofTrack(rangeOp.t)
          [] rangeOp.kind = "gpx" -> UNION {ofTrack(t) : t \in DOMAIN gpx}
          [] OTHER -> {}

\* C8: min_elevation and max_elevation at every scope fail exactly when no
\* point in the scope has an elevation, and else return the least and the
\* greatest elevation over all points of the scope that have one.
C8_RangeOverScope ==
    rangeOp.kind # "none" =>
        IF ScopeElevations = {}
        THEN rangeOp.min = Raised /\ rangeOp.max = Raised
        ELSE /\ rangeOp.min = <<SetMin(ScopeElevations)>>
             /\ rangeOp.max = <<SetMax(ScopeElevations)>>

----------------------------------------------------------------------------
(* lib.py: Point.find_nearest_track_point *)

\* Point.haversine_distance for two points of one meridian, each given by its
\* latitude in whole degrees: earth_radius_m * radians(|lat2 - lat1|); the unit
\* here is earth_radius_m * radians(1).
haversine_distance(self, other) == Abs(other - self)

\* The track points in the order the three nested loops of lines 547-549 visit
\* them, each as its place [t, s, i] in the tracks.
RECURSIVE ScanOrder(_, _, _, _)
ScanOrder(tracks, t, sg, i) ==
    IF t > Len(tracks) THEN <<>>
    ELSE IF sg > Len(tracks[t]) THEN ScanOrder(tracks, t + 1, 1, 1)
    ELSE IF i > Len(tracks[t][sg]) THEN ScanOrder(tracks, t, sg + 1, 1)
    ELSE <<[t |-> t, s |-> sg, i |-> i]>> \o ScanOrder(tracks, t, sg, i + 1)

PointAt(tracks, place) == tracks[place.t][place.s][place.i]

\* No point found yet: nearest_point is None (and min_distance is inf).
NoPoint == [t |-> 0, s |-> 0, i |-> 0]

\* A slip in the comparison of line 551: the farthest point is kept.
RECURSIVE FarthestLoop(_, _, _, _, _, _)
FarthestLoop(self, tracks, order, k, min_distance, nearest_point) ==
    IF k > Len(order) THEN nearest_point
    ELSE LET distance == haversine_distance(self, PointAt(tracks, order[k]))
         IN  IF nearest_point = NoPoint \/ distance > min_distance
             THEN FarthestLoop(self, tracks, order, k + 1, distance, order[k])
             ELSE FarthestLoop(self, tracks, order, k + 1, min_distance, nearest_point)

\* The loop body of lines 550-553 from the k-th visited point on. The first
\* comparison is against float("inf"), which every distance is below.
RECURSIVE NearestLoop(_, _, _, _, _, _)
NearestLoop(self, tracks, order, k, min_distance, nearest_point) ==
    IF k > Len(order) THEN nearest_point
    ELSE LET distance == haversine_distance(self, PointAt(tracks, order[k]))
         IN  IF nearest_point = NoPoint \/ distance < min_distance
             THEN NearestLoop(self, tracks, order, k + 1, distance, order[k])
             ELSE NearestLoop(self, tracks, order, k + 1, min_distance, nearest_point)

FindFarthest(self, tracks) ==
    FarthestLoop(self, tracks, ScanOrder(tracks, 1, 1, 1), 1, 0, NoPoint)

\* Point.find_nearest_track_point, lines 544-553: nearest_point as the loops leave it
find_nearest_track_point(self, tracks) ==
    NearestLoop(self, tracks, ScanOrder(tracks, 1, 1, 1), 1, 0, NoPoint)

NearInit ==
    /\ nearTracks \in Aggregates(Coords, MaxGpxPts, MaxGpxSegs, MaxGpxTracks)
    /\ nearOp = [kind |-> "none"]
    /\ NotNearIdle

\* point.find_nearest_track_point(tracks) with a point found: it is returned.
FindNearest ==
    \E self \in Coords :
        LET nearest_point == find_nearest_track_point(self, nearTracks)
        IN  /\ nearest_point # NoPoint
            /\ nearOp' = [kind |-> "nearest", self |-> self, outcome |-> "returned",
                          point |-> nearest_point]
            /\ UNCHANGED <<nearTracks, notNear>>

\* point.find_nearest_track_point(tracks), nearest_point still None: the
\* assertion of line 555 fails.
FindNearestNone ==
    \E self \in Coords :
        /\ find_nearest_track_point(self, nearTracks) = NoPoint
        /\ nearOp' = [kind |-> "nearest", self |-> self, outcome |-> "AssertionError",
                      point |-> NoPoint]
        /\ UNCHANGED <<nearTracks, notNear>>

NearNext == FindNearest \/ FindNearestNone

SpecNear == NearInit /\ [][NearNext]_vars

\* The places of all track points.
Places(tracks) ==
    UNION {UNION {{[t |-> t, s |-> sg, i |-> i] : i \in DOMAIN tracks[t][sg]} :
                    sg \in DOMAIN tracks[t]} : t \in DOMAIN tracks}

\* C9: with a track point or more, the call returns one of the track points
\* and no track point is strictly closer to the query; with no track point
\* it fails instead of returning.
C9_NearestIsClosest ==
    nearOp.kind = "nearest" =>
        IF Places(nearTracks) = {}
        THEN nearOp.outcome = "AssertionError"
        ELSE /\ nearOp.outcome = "returned"
             /\ nearOp.point \in Places(nearTracks)
             /\ \A pl \in Places(nearTracks) :
                    haversine_distance(nearOp.self, PointAt(nearTracks, pl))
                        >= haversine_distance(nearOp.self, PointAt(nearTracks, nearOp.point))

\* C9 witness: the nearest point is neither the first point visited nor at
\* distance 0, and some other point is strictly farther.
C9_Witness ==
    /\ nearOp.kind = "nearest" /\ nearOp.outcome = "returned"
    /\ nearOp.point # ScanOrder(nearTracks, 1, 1, 1)[1]
    /\ haversine_distance(nearOp.self, PointAt(nearTracks, nearOp.point)) > 0
    /\ \E pl \in Places(nearTracks) :
            haversine_distance(nearOp.self, PointAt(nearTracks, pl))
                > haversine_distance(nearOp.self, PointAt(nearTracks, nearOp.point))

----------------------------------------------------------------------------
(* hijack.py, join.py, split.py: writing the output *)

Paths == {"a.gpx", "b.gpx", "c.gpx"}

\* No file at the path.
Absent == "absent"

\* A file holds "old" (it was there before any run) or the name of the script
\* that wrote it.

\* ElementTree.write(path, ...): the file is created or replaced.
Write(files, path, content) == [files EXCEPT ![path] = content]

\* Writing every path of a set, as split.py does for one segment after another.
WriteAll(files, paths, content) ==
    [p \in DOMAIN files |-> IF p \in paths THEN content ELSE files[p]]

FileInit ==
    /\ fs \in [Paths -> {Absent, "old"}]
    /\ lastRun = [script |-> "none"]
    /\ NotFileIdle

\* hijack.py without -o, lines 14-15: Path.with_suffix("-with-data") raises
\* ValueError (a suffix must start with a dot) before anything is read or written.
HijackNoOutput ==
    /\ lastRun' = [script |-> "hijack", outputs |-> {}, before |-> fs,
                   outcome |-> "ValueError"]
    /\ UNCHANGED <<fs, notFile>>

\* hijack.py -o output, lines 47-48, the output path free: the track is written.
HijackWrites ==
    \E output \in Paths :
        /\ fs[output] = Absent
        /\ fs' = Write(fs, output, "hijack")
        /\ lastRun' = [script |-> "hijack", outputs |-> {output}, before |-> fs,
                       outcome |-> "written"]
        /\ UNCHANGED notFile

\* hijack.py -o output, line 47, the output path taken: the assertion fails.
HijackRefuses ==
    \E output \in Paths :
        /\ fs[output] # Absent
        /\ lastRun' = [script |-> "hijack", outputs |-> {output}, before |-> fs,
                       outcome |-> "AssertionError"]
        /\ UNCHANGED <<fs, notFile>>

\* join.py -o output, lines 47-48: the joined track is written, no test of the path.
JoinRun ==
    \E output \in Paths :
        /\ fs' = Write(fs, output, "join")
        /\ lastRun' = [script |-> "join", outputs |-> {output}, before |-> fs,
                       outcome |-> "written"]
        /\ UNCHANGED notFile

\* split.py, lines 29-35: one file per segment of every input track is written,
\* no test of any path. outputs are the names the format yields.
SplitRun ==
    \E outputs \in SUBSET Paths :
        /\ outputs # {}
        /\ fs' = WriteAll(fs, outputs, "split")
        /\ lastRun' = [script |-> "split", outputs |-> outputs, before |-> fs,
                       outcome |-> "written"]
        /\ UNCHANGED notFile

FileNext == HijackNoOutput \/ HijackWrites \/ HijackRefuses \/ JoinRun \/ SplitRun

SpecFile == FileInit /\ [][FileNext]_vars

\* C10: a run whose output path exists before it fails before any write and
\* leaves the file system as it was.
C10_NeverOverwrites ==
    (lastRun.script # "none" /\ \E p \in lastRun.outputs : lastRun.before[p] # Absent) =>
        /\ lastRun.outcome # "written"
        /\ fs = lastRun.before

----------------------------------------------------------------------------
(* join.py: join *)

\* The <trkseg> elements handed to join, each an Element object of its own.
SegmentElements == {"seg1", "seg2", "seg3"}

\* gpx_track.append(segment) for segment in segments, lines 28-29
AppendAll(children, segs) == children \o segs

\* The <trkseg> children of the track of the document that call i returned:
\* every call returns ElementTree(gpx_template_root), lines 26-27 and 30, a
\* view of the one module-level root, so it shows what the <trk> holds now.
ReturnedSegments(i) == trkChildren

\* Lines 9-21: the template is parsed once, at import, with an empty <trk>.
JoinInit ==
    /\ trkChildren = <<>>
    /\ joinCalls = <<>>
    /\ NotJoinIdle

\* join(segments), lines 25-30
Join ==
    \E segs \in SeqsUpTo(SegmentElements, MaxJoinSegs) :
        /\ Len(joinCalls) < MaxJoinCalls
        /\ trkChildren' = AppendAll(trkChildren, segs)
        /\ joinCalls' = Append(joinCalls, segs)
        /\ UNCHANGED notJoin

JoinNext == Join

SpecJoin == JoinInit /\ [][JoinNext]_vars

\* C15: after any sequence of calls, the document each call returned has as
\* its track's segments exactly the segments passed to that call, in order.
C15_JoinIndependent ==
    \A i \in DOMAIN joinCalls : ReturnedSegments(i) = joinCalls[i]

----------------------------------------------------------------------------
(* lib.py: GPX.to_xml, serialization, GPX.from_xml *)

\* GPX.ns, the namespace URI "http://www.topografix.com/GPX/1/1"
GpxNs == "http://www.topografix.com/GPX/1/1"

\* QName(ns, name): a name in a namespace; ns = "" is a name in no namespace.
QName(ns, name) == <<ns, name>>

\* The coordinates and elevations of the points that are written and read back.
CodecNumbers == 0..3

\* Point objects: elevation and timestamp are None or Some(value).
CodecPoints ==
    [latitude : {0, 1}, longitude : {2}, elevation : {None, Some(3)},
     timestamp : {None, Some(""), Some("t")}]

\* str(x) of a number
str(x) == ToString(x)

\* float(text): "NaN" parses to a float NaN, written <<>>; a number x to <<x>>.
NaN == <<>>
float(text) ==
    IF text = "NaN" THEN NaN ELSE <<CHOOSE x \in CodecNumbers : str(x) = text>>

\* nan2none(value), lines 569-572
nan2none(value) == IF value = NaN THEN None ELSE Some(value[1])

\* GPXElement(tag, attrib), lines 559-566: the tag and every attribute name are
\* wrapped in QName(GPX.ns, ...). attrib is a function from names to values.
GPXElement(tag, attrib, text, children) ==
    [tag |-> QName(GpxNs, tag),
     attrib |-> [q \in {QName(GpxNs, name) : name \in DOMAIN attrib} |-> attrib[q[2]]],
     text |-> text,
     children |-> children]

\* Point.to_xml, lines 488-507: always a "wpt" element.
Point_to_xml(point) ==
    GPXElement("wpt",
        [lat |-> str(point.latitude), lon |-> str(point.longitude)],
        None,
        (IF point.elevation # None
            THEN <<GPXElement("ele", <<>>, Some(str(point.elevation[1])), <<>>)>>
            ELSE <<>>)
        \o (IF point.timestamp # None
            THEN <<GPXElement("time", <<>>, point.timestamp, <<>>)>>
            ELSE <<>>))

\* Segment.to_xml, lines 287-297
Segment_to_xml(points) ==
    GPXElement("trkseg", <<>>, None, [i \in DOMAIN points |-> Point_to_xml(points[i])])

\* Track.to_xml, lines 166-177
Track_to_xml(segs) ==
    GPXElement("trk", <<>>, None, [i \in DOMAIN segs |-> Segment_to_xml(segs[i])])

\* GPX.to_xml, lines 62-74: the waypoints first, then the tracks.
GPX_to_xml(g) ==
    GPXElement("gpx", [version |-> "1.1", creator |-> "plan-schedule"], None,
        [i \in DOMAIN g.waypoints |-> Point_to_xml(g.waypoints[i])]
        \o [i \in DOMAIN g.tracks |-> Track_to_xml(g.tracks[i])])

\* ET.fromstring(ET.tostring(element, default_namespace=GPX.ns)), line 601 and
\* line 596: element tags keep their namespace; under default_namespace an
\* attribute whose name is in that namespace is written without a prefix, so it
\* is read back as a name in no namespace; an empty text is written as an
\* empty element and read back as no text.
RECURSIVE Reparse(_)
Reparse(element) ==
    [tag |-> element.tag,
     attrib |-> [q \in {QName("", k[2]) : k \in DOMAIN element.attrib} |->
                    element.attrib[QName(GpxNs, q[2])]],
     text |-> IF element.text = Some("") THEN None ELSE element.text,
     children |-> [i \in DOMAIN element.children |-> Reparse(element.children[i])]]

\* xml_element.findall("gpx:" + tag, GPX.nsmap): the children with that tag
findall(element, tag) ==
    SelectSeq(element.children, LAMBDA child : child.tag = QName(GpxNs, tag))

\* xml_element.findtext("gpx:" + tag, default, GPX.nsmap): the text of the first
\* such child, "" if it has no text, the default if there is no such child.
findtext(element, tag, default) ==
    LET found == findall(element, tag)
    IN  IF found = <<>> THEN default
        ELSE IF found[1].text = None THEN Some("") ELSE found[1].text

\* Whether xml_element.attrib["lat"] and ["lon"] of Point.from_xml find their key.
HasCoordinates(element) ==
    {QName("", "lat"), QName("", "lon")} \subseteq DOMAIN element.attrib

\* Point.from_xml, lines 471-486
Point_from_xml(element) ==
    [latitude |-> float(element.attrib[QName("", "lat")])[1],
     longitude |-> float(element.attrib[QName("", "lon")])[1],
     elevation |-> nan2none(float(findtext(element, "ele", Some("NaN"))[1])),
     timestamp |-> findtext(element, "time", None)]

\* Segment.from_xml, lines 270-285
Segment_from_xml(element) ==
    LET found == findall(element, "trkpt")
    IN  [i \in DOMAIN found |-> Point_from_xml(found[i])]

\* Track.from_xml, lines 150-164
Track_from_xml(element) ==
    LET found == findall(element, "trkseg")
    IN  [i \in DOMAIN found |-> Segment_from_xml(found[i])]

\* GPX.from_xml, lines 41-60
GPX_from_xml(element) ==
    LET trks == findall(element, "trk")
        wpts == findall(element, "wpt")
    IN  [tracks |-> [i \in DOMAIN trks |-> Track_from_xml(trks[i])],
         waypoints |-> [i \in DOMAIN wpts |-> Point_from_xml(wpts[i])]]

\* The elements GPX.from_xml hands to Point.from_xml.
PointElements(element) ==
    LET trks == findall(element, "trk")
        wpts == findall(element, "wpt")
    IN  {wpts[i] : i \in DOMAIN wpts}
        \cup UNION {UNION {{p \in {seg.children[k] : k \in DOMAIN seg.children} :
                                p.tag = QName(GpxNs, "trkpt")} :
                            seg \in {s \in {trks[i].children[j] : j \in DOMAIN trks[i].children} :
                                        s.tag = QName(GpxNs, "trkseg")}} :
                    i \in DOMAIN trks}

CodecInit ==
    /\ codecGpx \in
        {[tracks |-> t, waypoints |-> w] :
            t \in Aggregates(CodecPoints, MaxGpxPts, MaxGpxSegs, MaxGpxTracks),
            w \in SeqsUpTo(CodecPoints, MaxWpts)}
    /\ codecOp = [kind |-> "none"]
    /\ NotCodecIdle

\* GPX.from_xml(ET.fromstring(ET.tostring(gpx.to_xml(), default_namespace=GPX.ns)))
RoundTrip ==
    /\ codecOp.kind = "none"
    /\ LET document == Reparse(GPX_to_xml(codecGpx))
       IN  codecOp' =
            IF \A element \in PointElements(document) : HasCoordinates(element)
            THEN [kind |-> "roundtrip", outcome |-> "returned",
                  gpx |-> GPX_from_xml(document)]
            ELSE [kind |-> "roundtrip", outcome |-> "KeyError"]
    /\ UNCHANGED codecGpx
    /\ UNCHANGED notCodec

CodecNext == RoundTrip

SpecCodec == CodecInit /\ [][CodecNext]_vars

\* C11: reading back what GPX.to_xml wrote gives an aggregate with the same
\* tracks, segments, points and waypoints, in the same order.
C11_RoundTrip ==
    codecOp.kind = "roundtrip" =>
        /\ codecOp.outcome = "returned"
        /\ codecOp.gpx = codecGpx

\* The waypoints alone come back as they were written.
WaypointsRoundTrip ==
    codecOp.kind = "roundtrip" =>
        /\ codecOp.outcome = "returned"
        /\ codecOp.gpx.waypoints = codecGpx.waypoints

\* A segment read back never holds a point.
TrackPointsLost ==
    (codecOp.kind = "roundtrip" /\ codecOp.outcome = "returned") =>
        \A i \in DOMAIN codecOp.gpx.tracks : \A j \in DOMAIN codecOp.gpx.tracks[i] :
            codecOp.gpx.tracks[i][j] = <<>>

====
